---- MODULE Spec2Model ----
(***************************************************************************)
(* inject-store: a process-wide Redux store kept in a global slot, with a  *)
(* reducer registry (injectReducer / getReducer / cancelReducer /          *)
(* injectReducers) and a saga registry (injectSaga / getSaga / cancelSaga) *)
(* layered on it.  Modelled from src/src/index.js and src/src/utils.js.    *)
(*                                                                         *)
(* JavaScript values are modelled by tags (strings); TypeOf gives the      *)
(* result of `typeof`, NumKeys the number of own keys of an object.        *)
(***************************************************************************)
EXTENDS Integers, Sequences, FiniteSets, TLC

VARIABLES
    env,          \* which global scope the runtime has: "window", "globalThis", "none"
    globalSlot,   \* value stored under __REDUX_STORE__: 0 (undefined) or a store id
    stores,       \* the store objects created so far, by id
    noopReducer,  \* own properties of the module-level object `noopReducer`
    tasks,        \* the tasks started by the run capability, by handle number
    last          \* the last call made: its arguments, result, error and effects

vars == <<env, globalSlot, stores, noopReducer, tasks, last>>

----------------------------------------------------------------------------
(* Bounds of the model *)

\* the saga registry starts at most this many tasks in one behaviour
MaxTasks == 2

----------------------------------------------------------------------------
(* JavaScript values *)

Undefined == "undefined"
Null == "null"
EmptyString == ""
NOOP == "_noop"
NoopFn == "noopFn"
ObjProtoToString == "Object.prototype.toString"
SAGA_MIDDLEWARE == "SAGA_MIDDLEWARE"

\* reducers passed by callers
Handlers == {"h1", "h2"}

\* saga definitions passed by callers
SagaDefs == {"saga1", "saga2"}

Handle(i) == "task" \o ToString(i)

\* the values whose typeof is "function": reducers, Object.prototype.toString,
\* a saga middleware (a function with a run method) and its run method
Functions == Handlers \cup {NoopFn, ObjProtoToString, "sagaMw", "run"}

TypeOf(v) ==
    CASE v = Undefined -> "undefined"
      [] v = Null -> "object"
      [] v \in Functions -> "function"
      [] v \in {"42", "0"} -> "number"
      [] v \in {EmptyString, "str"} -> "string"
      [] OTHER -> "object"

\* number of own enumerable keys of an object value
NumKeys(v) == IF v = "{}" THEN 0 ELSE 1

Truthy(v) == v \notin {Undefined, Null, EmptyString, "0"}

\* the `run` property of a middleware value
RunOf(v) ==
    CASE v \in {"sagaMw", "runObj"} -> "run"
      [] OTHER -> Undefined

EmptyMap == [k \in {} |-> Undefined]

\* properties every object literal inherits from Object.prototype
ObjectPrototype == [k \in {"toString"} |-> ObjProtoToString]

\* obj[k]: an own property, else an inherited one, else undefined
Get(obj, k) ==
    IF k \in DOMAIN obj THEN obj[k]
    ELSE IF k \in DOMAIN ObjectPrototype THEN ObjectPrototype[k]
    ELSE Undefined

\* an assignment that is lost
PutLost(obj, k, v) == obj

\* obj[k] = v
Put(obj, k, v) == [x \in DOMAIN obj \cup {k} |-> IF x = k THEN v ELSE obj[x]]

\* delete obj[k]
Delete(obj, k) == [x \in DOMAIN obj \ {k} |-> obj[x]]

\* { ...a, ...b }
Spread(a, b) == [x \in DOMAIN a \cup DOMAIN b |-> IF x \in DOMAIN b THEN b[x] ELSE a[x]]

----------------------------------------------------------------------------
(* src/src/utils.js *)

isEmpty(v) ==
    \/ v = Undefined
    \/ v = Null
    \/ v = EmptyString
    \/ (TypeOf(v) = "object" /\ NumKeys(v) = 0)

isFunction(v) == TypeOf(v) = "function"

isObject(v) == TypeOf(v) = "object"

isBrowser == env = "window"

isGlobal == env \in {"window", "globalThis"}

\* getGlobal reading a key nothing was stored under
getGlobalOtherKey == [err |-> IF isGlobal THEN "none" ELSE "NoGlobalObject", value |-> 0]

\* getGlobal yielding undefined where there is no global scope
getGlobalNoThrow == [err |-> "none", value |-> globalSlot]

\* getGlobal(__REDUX_STORE__): the slot's value, or the error it throws
getGlobal ==
    IF isBrowser THEN [err |-> "none", value |-> globalSlot]
    ELSE IF isGlobal THEN [err |-> "none", value |-> globalSlot]
    ELSE [err |-> "NoGlobalObject", value |-> 0]

\* setGlobal(__REDUX_STORE__, id): the slot's new value, or the error it throws
setGlobal(id) ==
    IF isBrowser THEN [err |-> "none", value |-> id]
    ELSE IF isGlobal THEN [err |-> "none", value |-> id]
    ELSE [err |-> "NoGlobalObject", value |-> globalSlot]

----------------------------------------------------------------------------
(* src/src/index.js: the store object *)

BaseMethods == {"dispatch", "getState", "subscribe", "replaceReducer"}

ReducerMethods == {"injectReducer", "injectReducers", "cancelReducer", "getReducer"}

SagaMethods == {"injectSaga", "getSaga", "cancelSaga"}

\* store.runningReducers is a reference: to the module-level noopReducer
\* object, to an object of the store's own, or undefined
NoopRef == "ref:noopReducer"
OwnRef == "ref:own"

\* the object store.runningReducers refers to, given noopReducer's contents
RunningReducers(st, noop) ==
    IF st.runningReducers = NoopRef THEN noop
    ELSE IF st.runningReducers = OwnRef THEN st.ownReducers
    ELSE EmptyMap

\* a write through store.runningReducers lands in the object it refers to
WriteRunningReducers(st, noop, obj) ==
    IF st.runningReducers = NoopRef THEN [st |-> st, noop |-> obj]
    ELSE [st |-> [st EXCEPT !.ownReducers = obj], noop |-> noop]

\* combineReducers keeps the function-valued keys of the mapping it is given
combineReducers(reducers) ==
    [k \in {x \in DOMAIN reducers : isFunction(reducers[x])} |-> reducers[k]]

isStoreValid(st, noop) ==
    /\ BaseMethods \subseteq st.methods
    /\ st.runningReducers # Undefined
    /\ DOMAIN RunningReducers(st, noop) # {}

\* configureStore({reducer: noopReducer, middleware}) followed by lines 188-189
NewStore(mws, noop) ==
    [ methods         |-> BaseMethods,
      reducer         |-> combineReducers(noop),
      runningReducers |-> NoopRef,
      ownReducers     |-> EmptyMap,
      hasSagas        |-> FALSE,
      runningSagas    |-> EmptyMap,
      middlewares     |-> mws,
      attached        |-> {} ]

----------------------------------------------------------------------------
(* src/src/index.js: createInjectReducer and the closures it returns.      *)
(* Each takes the store and noopReducer's contents and yields both after   *)
(* the call, with the value returned, the error thrown and the number of   *)
(* replaceReducer calls made.                                              *)

Outcome(st, noop, ret, err, replaced) ==
    [st |-> st, noop |-> noop, ret |-> ret, err |-> err, replaced |-> replaced]

getReducer(st, noop, key) == Get(RunningReducers(st, noop), key)

\* the write without the rebuild and replaceReducer
ReplaceWithStale(st, noop, obj) == WriteRunningReducers(st, noop, obj)

\* lines 119-122 and 126-128: the write, then the rebuild and replaceReducer
ReplaceWith(st, noop, obj) ==
    LET w == WriteRunningReducers(st, noop, obj)
        reducers == Spread(RunningReducers(w.st, w.noop), w.noop)
    IN [st |-> [w.st EXCEPT !.reducer = combineReducers(reducers)], noop |-> w.noop]

\* injectReducer without the check that the key is already there
injectReducerOverwrite(st, noop, key, reducer) ==
    IF isEmpty(reducer) THEN Outcome(st, noop, Undefined, "none", 0)
    ELSE IF isEmpty(key) THEN Outcome(st, noop, Undefined, "none", 0)
    ELSE IF TypeOf(reducer) # "function"
    THEN Outcome(st, noop, Undefined, "ReducerMustBeFunction", 0)
    ELSE LET r == ReplaceWith(st, noop, Put(RunningReducers(st, noop), key, reducer))
         IN Outcome(r.st, r.noop, getReducer(r.st, r.noop, key), "none", 1)

injectReducer(st, noop, key, reducer) ==
    IF isEmpty(reducer) THEN Outcome(st, noop, Undefined, "none", 0)
    ELSE IF isEmpty(key) THEN Outcome(st, noop, Undefined, "none", 0)
    ELSE IF Truthy(getReducer(st, noop, key))
    THEN Outcome(st, noop, getReducer(st, noop, key), "none", 0)
    ELSE IF TypeOf(reducer) # "function"
    THEN Outcome(st, noop, Undefined, "ReducerMustBeFunction", 0)
    ELSE LET r == ReplaceWith(st, noop, Put(RunningReducers(st, noop), key, reducer))
         IN Outcome(r.st, r.noop, getReducer(r.st, r.noop, key), "none", 1)

cancelReducer(st, noop, key) ==
    IF Truthy(getReducer(st, noop, key))
    THEN LET r == ReplaceWith(st, noop, Delete(RunningReducers(st, noop), key))
         IN Outcome(r.st, r.noop, Undefined, "none", 1)
    ELSE Outcome(st, noop, Undefined, "none", 0)

\* Object.entries(reducers).forEach(injectReducer): entries is the mapping's
\* entries in iteration order; the first throw ends the loop
RECURSIVE forEachInject(_, _, _, _)
forEachInject(st, noop, entries, replaced) ==
    IF entries = <<>> THEN Outcome(st, noop, Undefined, "none", replaced)
    ELSE LET o == injectReducer(st, noop, Head(entries)[1], Head(entries)[2])
         IN IF o.err # "none"
            THEN Outcome(o.st, o.noop, Undefined, o.err, replaced + o.replaced)
            ELSE forEachInject(o.st, o.noop, Tail(entries), replaced + o.replaced)

\* injectReducers checking every value before it registers any entry
injectReducersCheckFirst(st, noop, reducers, entries) ==
    IF reducers # "mapping" /\ ~isObject(reducers)
    THEN Outcome(st, noop, Undefined, "ExpectedObject", 0)
    ELSE IF reducers = Null
    THEN Outcome(st, noop, Undefined, "TypeError", 0)
    ELSE IF \E i \in DOMAIN entries :
               ~isEmpty(entries[i][2]) /\ ~isFunction(entries[i][2])
    THEN Outcome(st, noop, Undefined, "ReducerMustBeFunction", 0)
    ELSE forEachInject(st, noop, entries, 0)

\* reducers is the argument's tag: "mapping" (with its entries), null or
\* another value
injectReducers(st, noop, reducers, entries) ==
    IF reducers # "mapping" /\ ~isObject(reducers)
    THEN Outcome(st, noop, Undefined, "ExpectedObject", 0)
    ELSE IF reducers = Null
    THEN Outcome(st, noop, Undefined, "TypeError", 0)
    ELSE forEachInject(st, noop, entries, 0)

createInjectReducer(st, noop) ==
    IF ~isStoreValid(st, noop)
    THEN Outcome(st, noop, Undefined, "StoreNotValid", 0)
    ELSE LET st1 == IF st.runningReducers = Undefined
                    THEN [st EXCEPT !.runningReducers = OwnRef, !.ownReducers = EmptyMap]
                    ELSE st
         IN Outcome([st1 EXCEPT !.attached = @ \cup ReducerMethods],
                    noop, "registry", "none", 0)

----------------------------------------------------------------------------
(* src/src/index.js: createInjectSaga and the closures it returns.  Each   *)
(* takes the store and the tasks started so far and yields both after the  *)
(* call, with the value returned, the error thrown, the number of runSaga  *)
(* calls made and the handles whose cancel was called.                     *)

SagaOutcome(st, tk, ret, err, ran, cancelled) ==
    [st |-> st, tasks |-> tk, ret |-> ret, err |-> err, ran |-> ran,
     cancelled |-> cancelled]

\* the number of the task a handle stands for, 0 for any other value
TaskOf(tk, h) ==
    IF \E i \in 1..Len(tk) : Handle(i) = h
    THEN CHOOSE i \in 1..Len(tk) : Handle(i) = h
    ELSE 0

\* the run capability: starts a task for the saga and returns its handle
runSaga(tk, key, saga) ==
    [tasks |-> Append(tk, [saga |-> saga, key |-> key, cancels |-> 0]),
     handle |-> Handle(Len(tk) + 1)]

\* handle.cancel()
cancelTask(tk, h) == [tk EXCEPT ![TaskOf(tk, h)].cancels = @ + 1]

getSaga(st, key) == Get(st.runningSagas, key)

\* injectSaga without the check that the key already has a task
injectSagaAlwaysRun(st, tk, key, saga) ==
    LET r == runSaga(tk, key, saga)
        st1 == [st EXCEPT !.runningSagas = Put(@, key, r.handle)]
    IN SagaOutcome(st1, r.tasks, getSaga(st1, key), "none", 1, <<>>)

injectSaga(st, tk, key, saga) ==
    IF Truthy(getSaga(st, key))
    THEN SagaOutcome(st, tk, getSaga(st, key), "none", 0, <<>>)
    ELSE LET r == runSaga(tk, key, saga)
             st1 == [st EXCEPT !.runningSagas = Put(@, key, r.handle)]
         IN SagaOutcome(st1, r.tasks, getSaga(st1, key), "none", 1, <<>>)

\* cancelSaga without the delete
cancelSagaKeepEntry(st, tk, key) ==
    IF Truthy(getSaga(st, key))
    THEN IF TaskOf(tk, getSaga(st, key)) = 0
         THEN SagaOutcome(st, tk, Undefined, "TypeError", 0, <<>>)
         ELSE SagaOutcome(st, cancelTask(tk, getSaga(st, key)),
                          Undefined, "none", 0, <<getSaga(st, key)>>)
    ELSE SagaOutcome(st, tk, Undefined, "none", 0, <<>>)

\* cancelSaga without the call of cancel
cancelSagaForget(st, tk, key) ==
    IF Truthy(getSaga(st, key))
    THEN IF TaskOf(tk, getSaga(st, key)) = 0
         THEN SagaOutcome(st, tk, Undefined, "TypeError", 0, <<>>)
         ELSE SagaOutcome([st EXCEPT !.runningSagas = Delete(@, key)], tk,
                          Undefined, "none", 0, <<>>)
    ELSE SagaOutcome(st, tk, Undefined, "none", 0, <<>>)

cancelSaga(st, tk, key) ==
    IF Truthy(getSaga(st, key))
    THEN IF TaskOf(tk, getSaga(st, key)) = 0
         THEN \* the value found has no cancel method
              SagaOutcome(st, tk, Undefined, "TypeError", 0, <<>>)
         ELSE SagaOutcome([st EXCEPT !.runningSagas = Delete(@, key)],
                          cancelTask(tk, getSaga(st, key)),
                          Undefined, "none", 0, <<getSaga(st, key)>>)
    ELSE SagaOutcome(st, tk, Undefined, "none", 0, <<>>)

\* createInjectSaga without the check of runSaga
createInjectSagaAnyRun(st, noop, run) ==
    IF ~isStoreValid(st, noop)
    THEN Outcome(st, noop, Undefined, "StoreNotValid", 0)
    ELSE LET st1 == IF st.hasSagas THEN st
                    ELSE [st EXCEPT !.hasSagas = TRUE, !.runningSagas = EmptyMap]
         IN Outcome([st1 EXCEPT !.attached = @ \cup SagaMethods],
                    noop, "registry", "none", 0)

createInjectSaga(st, noop, run) ==
    IF ~isStoreValid(st, noop)
    THEN Outcome(st, noop, Undefined, "StoreNotValid", 0)
    ELSE IF ~isFunction(run)
    THEN Outcome(st, noop, Undefined, "RunSagaNotFunction", 0)
    ELSE LET st1 == IF st.hasSagas THEN st
                    ELSE [st EXCEPT !.hasSagas = TRUE, !.runningSagas = EmptyMap]
         IN Outcome([st1 EXCEPT !.attached = @ \cup SagaMethods],
                    noop, "registry", "none", 0)

----------------------------------------------------------------------------
(* src/src/index.js: createReduxStore *)

\* the largest number of stores a behaviour creates
MaxStores == 2

Mw1(k, v) == [x \in {k} |-> v]

\* the middlewares mappings callers pass: none, a number, null, a saga
\* middleware and an object with a run method
Middlewares ==
    { EmptyMap,
      Mw1("logger", "42"),
      Mw1("logger", Null),
      Mw1(SAGA_MIDDLEWARE, "sagaMw"),
      Mw1(SAGA_MIDDLEWARE, "runObj") }

\* a check of the saga middleware's entry alone
middlewareInvalidSagaOnly(mws) ==
    /\ SAGA_MIDDLEWARE \in DOMAIN mws
    /\ ~isObject(mws[SAGA_MIDDLEWARE]) /\ ~isFunction(mws[SAGA_MIDDLEWARE])

\* lines 167-171: some value is neither an object nor a function
middlewareInvalid(mws) ==
    \E k \in DOMAIN mws : ~isObject(mws[k]) /\ ~isFunction(mws[k])

\* configureStore belongs to @reduxjs/toolkit: it may reject a middleware
\* that is not a function; TRUE stands for a store being returned
configureStoreOutcomes(mws) ==
    IF \A k \in DOMAIN mws : isFunction(mws[k]) THEN {TRUE} ELSE {TRUE, FALSE}

Result(sts, slot, ret, err) ==
    [stores |-> sts, slot |-> slot, ret |-> ret, err |-> err]

\* lines 190-201, for the store just built
publishStore(store, mws) ==
    LET id == Len(stores) + 1
        sg == setGlobal(id)
        r  == createInjectReducer(store, noopReducer)
        mw == Get(mws, SAGA_MIDDLEWARE)
        sr == createInjectSaga(r.st, noopReducer, RunOf(mw))
    IN IF ~isStoreValid(store, noopReducer)
       THEN Result(stores, globalSlot, 0, "FailedToCreateStore")
       ELSE IF sg.err # "none"
       THEN Result(stores, globalSlot, 0, sg.err)
       ELSE IF ~isBrowser
       THEN \* line 194 reads the undeclared identifier `window`
            Result(Append(stores, store), sg.value, 0, "ReferenceError")
       ELSE IF r.err # "none"
       THEN Result(Append(stores, store), sg.value, 0, r.err)
       ELSE IF Truthy(mw) /\ Truthy(RunOf(mw))
       THEN IF sr.err # "none"
            THEN Result(Append(stores, r.st), sg.value, 0, sr.err)
            ELSE Result(Append(stores, sr.st), sg.value, id, "none")
       ELSE Result(Append(stores, r.st), sg.value, id, "none")

\* the existing store returned with the supplied middlewares stored on it
returnExistingMerged(id, mws) ==
    Result([stores EXCEPT ![id].middlewares = mws], globalSlot, id, "none")

\* line 179: the existing store is returned as it is
returnExisting(id, mws) == Result(stores, globalSlot, id, "none")

\* createReduxStore building a new store over an existing one that is not
\* valid
createReduxStoreReplacing(mws, ok) ==
    LET existingStore == getGlobal
    IN IF middlewareInvalid(mws)
       THEN Result(stores, globalSlot, 0, "MiddlewareInvalid")
       ELSE IF existingStore.err # "none"
       THEN Result(stores, globalSlot, 0, existingStore.err)
       ELSE IF existingStore.value # 0
               /\ isStoreValid(stores[existingStore.value], noopReducer)
       THEN returnExisting(existingStore.value, mws)
       ELSE IF ~ok
       THEN Result(stores, globalSlot, 0, "ConfigureStoreError")
       ELSE publishStore(NewStore(mws, noopReducer), mws)

\* ok: whether configureStore returns a store
createReduxStore(mws, ok) ==
    LET existingStore == getGlobal
    IN IF middlewareInvalid(mws)
       THEN Result(stores, globalSlot, 0, "MiddlewareInvalid")
       ELSE IF existingStore.err # "none"
       THEN Result(stores, globalSlot, 0, existingStore.err)
       ELSE IF existingStore.value # 0
       THEN IF ~isStoreValid(stores[existingStore.value], noopReducer)
            THEN Result(stores, globalSlot, 0, "ExistingStoreInvalid")
            ELSE returnExisting(existingStore.value, mws)
       ELSE IF ~ok
       THEN Result(stores, globalSlot, 0, "ConfigureStoreError")
       ELSE publishStore(NewStore(mws, noopReducer), mws)

----------------------------------------------------------------------------
(* src/unnamed/part_000: the module's earlier version of the validity     *)
(* check, the registry constructors with their reducer closures, and the  *)
(* accessor.  Its saga closures and getReducer read as in src/src/index.js *)

\* lines 12-17
isStoreValid_part000(st) == {"dispatch", "getState", "subscribe"} \subseteq st.methods

\* lines 35-59: runningSagas is set to a new object on every call
createInjectSaga_part000(st, noop, run) ==
    IF ~isStoreValid_part000(st)
    THEN Outcome(st, noop, Undefined, "StoreNotValid", 0)
    ELSE IF ~isFunction(run)
    THEN Outcome(st, noop, Undefined, "RunSagaNotFunction", 0)
    ELSE Outcome([st EXCEPT !.hasSagas = TRUE, !.runningSagas = EmptyMap,
                            !.attached = @ \cup SagaMethods],
                 noop, "registry", "none", 0)

\* lines 84-91
injectReducer_part000(st, noop, key, reducer) ==
    IF Truthy(getReducer(st, noop, key))
    THEN Outcome(st, noop, getReducer(st, noop, key), "none", 0)
    ELSE IF TypeOf(reducer) # "function"
    THEN Outcome(st, noop, Undefined, "ReducerMustBeFunction", 0)
    ELSE LET w == WriteRunningReducers(st, noop, Put(RunningReducers(st, noop), key, reducer))
             st1 == [w.st EXCEPT !.reducer = combineReducers(RunningReducers(w.st, w.noop))]
         IN Outcome(st1, w.noop, getReducer(st1, w.noop, key), "none", 1)

\* lines 92-97
cancelReducer_part000(st, noop, key) ==
    IF Truthy(getReducer(st, noop, key))
    THEN LET w == WriteRunningReducers(st, noop, Delete(RunningReducers(st, noop), key))
         IN Outcome([w.st EXCEPT !.reducer = combineReducers(RunningReducers(w.st, w.noop))],
                    w.noop, Undefined, "none", 1)
    ELSE Outcome(st, noop, Undefined, "none", 0)

\* lines 102-104
RECURSIVE forEachInject_part000(_, _, _, _)
forEachInject_part000(st, noop, entries, replaced) ==
    IF entries = <<>> THEN Outcome(st, noop, Undefined, "none", replaced)
    ELSE LET o == injectReducer_part000(st, noop, Head(entries)[1], Head(entries)[2])
         IN IF o.err # "none"
            THEN Outcome(o.st, o.noop, Undefined, o.err, replaced + o.replaced)
            ELSE forEachInject_part000(o.st, o.noop, Tail(entries), replaced + o.replaced)

\* lines 98-105
injectReducers_part000(st, noop, reducers, entries) ==
    IF reducers # "mapping" /\ ~isObject(reducers)
    THEN Outcome(st, noop, Undefined, "ExpectedObject", 0)
    ELSE IF reducers = Null
    THEN Outcome(st, noop, Undefined, "TypeError", 0)
    ELSE forEachInject_part000(st, noop, entries, 0)

\* lines 78-111: runningReducers is set to a new object on every call
createInjectReducer_part000(st, noop) ==
    IF ~isStoreValid_part000(st)
    THEN Outcome(st, noop, Undefined, "StoreNotValid", 0)
    ELSE Outcome([st EXCEPT !.runningReducers = OwnRef, !.ownReducers = EmptyMap,
                            !.attached = @ \cup ReducerMethods],
                 noop, "registry", "none", 0)

\* lines 134-144: configureStore({reducer: {}, middleware}), store.middlewares
NewStore_part000(mws) ==
    [ methods         |-> BaseMethods,
      reducer         |-> EmptyMap,
      runningReducers |-> Undefined,
      ownReducers     |-> EmptyMap,
      hasSagas        |-> FALSE,
      runningSagas    |-> EmptyMap,
      middlewares     |-> mws,
      attached        |-> {} ]

\* the middlewares arrays callers pass: none, a saga middleware, a number
Middlewares_part000 == { <<>>, <<"sagaMw">>, <<"42">> }

\* lines 124-153; ok: whether configureStore returns a store
createReduxStore_part000(mws, ok) ==
    IF ~isBrowser
    THEN \* line 126 reads the undeclared identifier `window`
         Result(stores, globalSlot, 0, "ReferenceError")
    ELSE IF globalSlot # 0 /\ isStoreValid_part000(stores[globalSlot])
    THEN Result(stores, globalSlot, globalSlot, "none")
    ELSE IF \E i \in DOMAIN mws : ~isObject(mws[i]) /\ ~isFunction(mws[i])
    THEN Result(stores, globalSlot, 0, "MiddlewareInvalid")
    ELSE IF ~ok
    THEN Result(stores, globalSlot, 0, "ConfigureStoreError")
    ELSE IF ~isStoreValid_part000(NewStore_part000(mws))
    THEN Result(stores, globalSlot, 0, "FailedToCreateStore")
    ELSE Result(Append(stores, NewStore_part000(mws)), Len(stores) + 1,
                Len(stores) + 1, "none")

----------------------------------------------------------------------------
(* The calls a client makes *)

\* keys callers pass to the reducer registry: the empty string, two
\* ordinary keys, the placeholder's key and a name every object inherits
ReducerKeys == {EmptyString, "a", "b", NOOP, "toString"}

\* values callers pass as reducers
ReducerArgs == Handlers \cup {Undefined, "{}", "{x}", "42"}

\* keys callers pass to the saga registry
SagaKeys == {"p", "q", "toString"}

\* values callers pass as the run capability
RunArgs == {"run", "42", Undefined}

Entry(k, v) == <<k, v>>

\* the arguments callers pass to injectReducers: a mapping, given by its
\* entries in iteration order, or a value that is no mapping
ReducersArgs ==
    {[tag |-> "mapping", entries |-> e] :
        e \in { <<>>,
                <<Entry("a", "h1")>>,
                <<Entry("a", "h1"), Entry("b", "h2")>>,
                <<Entry("b", "h1"), Entry("a", "h2")>>,
                <<Entry("a", "42"), Entry("b", "h2")>>,
                <<Entry("a", "h2"), Entry("b", "42")>>,
                <<Entry(NOOP, "h1"), Entry("b", "h1")>> }}
    \cup {[tag |-> t, entries |-> <<>>] : t \in {Null, "42"}}

Call(op, s, key, arg, entries, mws, ret, err, replaced, ran, cancelled) ==
    [op |-> op, store |-> s, key |-> key, arg |-> arg, entries |-> entries,
     mws |-> mws, ret |-> ret, err |-> err, replaced |-> replaced, ran |-> ran,
     cancelled |-> cancelled]

StoreIds == 1..Len(stores)

Init ==
    /\ env \in {"window", "globalThis", "none"}
    /\ globalSlot = 0
    /\ stores = <<>>
    /\ noopReducer = [k \in {NOOP} |-> NoopFn]
    /\ tasks = <<>>
    /\ last = Call("init", 0, "", Undefined, <<>>, EmptyMap, Undefined, "none", 0, 0, <<>>)

CreateReduxStore(mws) ==
    /\ Len(stores) < MaxStores
    /\ \E ok \in configureStoreOutcomes(mws) :
         LET r == createReduxStore(mws, ok)
         IN /\ stores' = r.stores
            /\ globalSlot' = r.slot
            /\ last' = Call("createReduxStore", r.ret, "", Undefined, <<>>, mws,
                            Undefined, r.err, 0, 0, <<>>)
    /\ UNCHANGED <<env, noopReducer, tasks>>

CreateInjectReducer(s) ==
    LET r == createInjectReducer(stores[s], noopReducer)
    IN /\ stores' = [stores EXCEPT ![s] = r.st]
       /\ last' = Call("createInjectReducer", s, "", Undefined, <<>>, EmptyMap,
                       r.ret, r.err, 0, 0, <<>>)
       /\ UNCHANGED <<env, globalSlot, noopReducer, tasks>>

CreateInjectSaga(s, run) ==
    LET r == createInjectSaga(stores[s], noopReducer, run)
    IN /\ stores' = [stores EXCEPT ![s] = r.st]
       /\ last' = Call("createInjectSaga", s, "", run, <<>>, EmptyMap,
                       r.ret, r.err, 0, 0, <<>>)
       /\ UNCHANGED <<env, globalSlot, noopReducer, tasks>>

InjectReducer(s, key, reducer) ==
    /\ "injectReducer" \in stores[s].attached
    /\ LET r == injectReducer(stores[s], noopReducer, key, reducer)
       IN /\ stores' = [stores EXCEPT ![s] = r.st]
          /\ noopReducer' = r.noop
          /\ last' = Call("injectReducer", s, key, reducer, <<>>, EmptyMap,
                          r.ret, r.err, r.replaced, 0, <<>>)
    /\ UNCHANGED <<env, globalSlot, tasks>>

GetReducer(s, key) ==
    /\ "getReducer" \in stores[s].attached
    /\ last' = Call("getReducer", s, key, Undefined, <<>>, EmptyMap,
                    getReducer(stores[s], noopReducer, key), "none", 0, 0, <<>>)
    /\ UNCHANGED <<env, globalSlot, stores, noopReducer, tasks>>

CancelReducer(s, key) ==
    /\ "cancelReducer" \in stores[s].attached
    /\ LET r == cancelReducer(stores[s], noopReducer, key)
       IN /\ stores' = [stores EXCEPT ![s] = r.st]
          /\ noopReducer' = r.noop
          /\ last' = Call("cancelReducer", s, key, Undefined, <<>>, EmptyMap,
                          r.ret, r.err, r.replaced, 0, <<>>)
    /\ UNCHANGED <<env, globalSlot, tasks>>

InjectReducers(s, reducers) ==
    /\ "injectReducers" \in stores[s].attached
    /\ LET r == injectReducers(stores[s], noopReducer, reducers.tag, reducers.entries)
       IN /\ stores' = [stores EXCEPT ![s] = r.st]
          /\ noopReducer' = r.noop
          /\ last' = Call("injectReducers", s, "", reducers.tag, reducers.entries,
                          EmptyMap, r.ret, r.err, r.replaced, 0, <<>>)
    /\ UNCHANGED <<env, globalSlot, tasks>>

InjectSaga(s, key, saga) ==
    /\ "injectSaga" \in stores[s].attached
    /\ LET r == injectSaga(stores[s], tasks, key, saga)
       IN /\ Len(r.tasks) <= MaxTasks
          /\ stores' = [stores EXCEPT ![s] = r.st]
          /\ tasks' = r.tasks
          /\ last' = Call("injectSaga", s, key, saga, <<>>, EmptyMap,
                          r.ret, r.err, 0, r.ran, r.cancelled)
    /\ UNCHANGED <<env, globalSlot, noopReducer>>

GetSaga(s, key) ==
    /\ "getSaga" \in stores[s].attached
    /\ last' = Call("getSaga", s, key, Undefined, <<>>, EmptyMap,
                    getSaga(stores[s], key), "none", 0, 0, <<>>)
    /\ UNCHANGED <<env, globalSlot, stores, noopReducer, tasks>>

CancelSaga(s, key) ==
    /\ "cancelSaga" \in stores[s].attached
    /\ LET r == cancelSaga(stores[s], tasks, key)
       IN /\ stores' = [stores EXCEPT ![s] = r.st]
          /\ tasks' = r.tasks
          /\ last' = Call("cancelSaga", s, key, Undefined, <<>>, EmptyMap,
                          r.ret, r.err, 0, r.ran, r.cancelled)
    /\ UNCHANGED <<env, globalSlot, noopReducer>>

\* the store accessor and the reducer registry
NextHandlers ==
    \/ \E mws \in Middlewares : CreateReduxStore(mws)
    \/ \E s \in StoreIds : CreateInjectReducer(s)
    \/ \E s \in StoreIds, key \in ReducerKeys, reducer \in ReducerArgs :
          InjectReducer(s, key, reducer)
    \/ \E s \in StoreIds, key \in ReducerKeys : GetReducer(s, key)
    \/ \E s \in StoreIds, key \in ReducerKeys : CancelReducer(s, key)
    \/ \E s \in StoreIds, reducers \in ReducersArgs : InjectReducers(s, reducers)

\* the store accessor and the saga registry
NextProcesses ==
    \/ \E mws \in Middlewares : CreateReduxStore(mws)
    \/ \E s \in StoreIds, run \in RunArgs : CreateInjectSaga(s, run)
    \/ \E s \in StoreIds, key \in SagaKeys, saga \in SagaDefs : InjectSaga(s, key, saga)
    \/ \E s \in StoreIds, key \in SagaKeys : GetSaga(s, key)
    \/ \E s \in StoreIds, key \in SagaKeys : CancelSaga(s, key)

\* the store accessor, both registry constructors, and a client that uses
\* both registries with few keys
NextRegistries ==
    \/ \E mws \in Middlewares : CreateReduxStore(mws)
    \/ \E s \in StoreIds : CreateInjectReducer(s)
    \/ \E s \in StoreIds, run \in RunArgs : CreateInjectSaga(s, run)
    \/ \E s \in StoreIds, key \in {EmptyString, "a"}, reducer \in {Undefined, "h1"} :
          InjectReducer(s, key, reducer)
    \/ \E s \in StoreIds, key \in {"a", "b", NOOP, "toString"} : CancelReducer(s, key)
    \/ \E s \in StoreIds, key \in {"p"}, saga \in {"saga1"} : InjectSaga(s, key, saga)
    \/ \E s \in StoreIds, key \in SagaKeys : CancelSaga(s, key)

Next == NextHandlers \/ NextProcesses

Spec == Init /\ [][Next]_vars

\* clients that use the reducer registry only
SpecHandlers == Init /\ [][NextHandlers]_vars

\* clients that use the saga registry only
SpecProcesses == Init /\ [][NextProcesses]_vars

\* clients that construct registries and use both of them
SpecRegistries == Init /\ [][NextRegistries]_vars

----------------------------------------------------------------------------
(* The calls a client of src/unnamed/part_000 makes *)

CreateReduxStore_part000(mws) ==
    /\ Len(stores) < MaxStores
    /\ \E ok \in configureStoreOutcomes(mws) :
         LET r == createReduxStore_part000(mws, ok)
         IN /\ stores' = r.stores
            /\ globalSlot' = r.slot
            /\ last' = Call("createReduxStore", r.ret, "", Undefined, <<>>, mws,
                            Undefined, r.err, 0, 0, <<>>)
    /\ UNCHANGED <<env, noopReducer, tasks>>

CreateInjectReducer_part000(s) ==
    LET r == createInjectReducer_part000(stores[s], noopReducer)
    IN /\ stores' = [stores EXCEPT ![s] = r.st]
       /\ last' = Call("createInjectReducer", s, "", Undefined, <<>>, EmptyMap,
                       r.ret, r.err, 0, 0, <<>>)
       /\ UNCHANGED <<env, globalSlot, noopReducer, tasks>>

CreateInjectSaga_part000(s, run) ==
    LET r == createInjectSaga_part000(stores[s], noopReducer, run)
    IN /\ stores' = [stores EXCEPT ![s] = r.st]
       /\ last' = Call("createInjectSaga", s, "", run, <<>>, EmptyMap,
                       r.ret, r.err, 0, 0, <<>>)
       /\ UNCHANGED <<env, globalSlot, noopReducer, tasks>>

InjectReducer_part000(s, key, reducer) ==
    /\ "injectReducer" \in stores[s].attached
    /\ LET r == injectReducer_part000(stores[s], noopReducer, key, reducer)
       IN /\ stores' = [stores EXCEPT ![s] = r.st]
          /\ noopReducer' = r.noop
          /\ last' = Call("injectReducer", s, key, reducer, <<>>, EmptyMap,
                          r.ret, r.err, r.replaced, 0, <<>>)
    /\ UNCHANGED <<env, globalSlot, tasks>>

CancelReducer_part000(s, key) ==
    /\ "cancelReducer" \in stores[s].attached
    /\ LET r == cancelReducer_part000(stores[s], noopReducer, key)
       IN /\ stores' = [stores EXCEPT ![s] = r.st]
          /\ noopReducer' = r.noop
          /\ last' = Call("cancelReducer", s, key, Undefined, <<>>, EmptyMap,
                          r.ret, r.err, r.replaced, 0, <<>>)
    /\ UNCHANGED <<env, globalSlot, tasks>>

InjectReducers_part000(s, reducers) ==
    /\ "injectReducers" \in stores[s].attached
    /\ LET r == injectReducers_part000(stores[s], noopReducer, reducers.tag,
                                       reducers.entries)
       IN /\ stores' = [stores EXCEPT ![s] = r.st]
          /\ noopReducer' = r.noop
          /\ last' = Call("injectReducers", s, "", reducers.tag, reducers.entries,
                          EmptyMap, r.ret, r.err, r.replaced, 0, <<>>)
    /\ UNCHANGED <<env, globalSlot, tasks>>

\* the accessor, the registry constructors and the registries of
\* src/unnamed/part_000
NextPart000 ==
    \/ \E mws \in Middlewares_part000 : CreateReduxStore_part000(mws)
    \/ \E s \in StoreIds : CreateInjectReducer_part000(s)
    \/ \E s \in StoreIds, run \in RunArgs : CreateInjectSaga_part000(s, run)
    \/ \E s \in StoreIds, key \in {"a", "b"}, reducer \in {"h1", "42"} :
          InjectReducer_part000(s, key, reducer)
    \/ \E s \in StoreIds, key \in {"a", "b"} : GetReducer(s, key)
    \/ \E s \in StoreIds, key \in {"a", "b"} : CancelReducer_part000(s, key)
    \/ \E s \in StoreIds, reducers \in ReducersArgs : InjectReducers_part000(s, reducers)
    \/ \E s \in StoreIds, key \in {"p"}, saga \in {"saga1"} : InjectSaga(s, key, saga)
    \/ \E s \in StoreIds, key \in {"p"} : GetSaga(s, key)
    \/ \E s \in StoreIds, key \in {"p"} : CancelSaga(s, key)

\* clients of the module as it is in src/unnamed/part_000
SpecPart000 == Init /\ [][NextPart000]_vars

----------------------------------------------------------------------------
(* Properties of the store accessor and the reducer registry *)

\* the store the last call was made on, and its reducers
LastStore == stores[last.store]
Active(s) == RunningReducers(stores[s], noopReducer)
ActiveNext(s) == RunningReducers(stores'[s], noopReducer')
IsAdd(c) == c.op = "injectReducer"
IsRemove(c) == c.op = "cancelReducer"
IsAccessor(c) == c.op = "createReduxStore"
SameCall(c, d) == c.op = d.op /\ c.store = d.store /\ c.key = d.key /\ c.arg = d.arg

\* C1: whatever reducer registry calls are made, every store the accessor
\* produced stays valid and keeps the placeholder reducer in runningReducers.
C1_StoreStaysValid ==
    \A s \in StoreIds :
        /\ isStoreValid(stores[s], noopReducer)
        /\ NOOP \in DOMAIN Active(s)
        /\ Active(s)[NOOP] = NoopFn

\* C2: once the global slot holds a store no call replaces it, and every
\* accessor call that returns, returns the store in the slot: any two calls
\* that return, return the same store.
C2_Singleton ==
    [][ /\ globalSlot # 0 => globalSlot' = globalSlot
        /\ (IsAccessor(last') /\ last'.err = "none") =>
              /\ last'.store = globalSlot'
              /\ globalSlot # 0 => last'.store = globalSlot
        /\ (IsAccessor(last) /\ last.err = "none" /\ IsAccessor(last')
              /\ last'.err = "none") => last'.store = last.store ]_vars

\* a repeat accessor call returns the store after reducers were registered
C2_Witness ==
    /\ IsAccessor(last) /\ last.err = "none"
    /\ last.store = globalSlot
    /\ last.mws # LastStore.middlewares
    /\ "a" \in DOMAIN Active(last.store)

\* C3: add(k, h) with h callable and k already registered with h1 returns h1,
\* changes neither runningReducers nor the store and calls replaceReducer not
\* at all; two consecutive add(k, h) return the same reducer and call
\* replaceReducer at most once.
C3_AddIdempotent ==
    [][ /\ (IsAdd(last') /\ isFunction(last'.arg)
              /\ last'.key \in DOMAIN Active(last'.store)) =>
              /\ last'.err = "none"
              /\ last'.ret = Active(last'.store)[last'.key]
              /\ noopReducer' = noopReducer
              /\ stores' = stores
              /\ last'.replaced = 0
        /\ (IsAdd(last) /\ IsAdd(last') /\ SameCall(last, last')
              /\ isFunction(last'.arg) /\ last'.key # EmptyString) =>
              /\ last'.ret = last.ret
              /\ last.replaced + last'.replaced <= 1 ]_vars

\* add(k, h2) on a key registered with h1 returned h1
C3_Witness ==
    /\ IsAdd(last) /\ last.arg = "h2" /\ last.ret = "h1"
    /\ last.replaced = 0
    /\ Active(last.store)[last.key] = "h1"

C5_RemoveClears ==
    [][ /\ (IsRemove(last') /\ last'.key \in DOMAIN Active(last'.store)) =>
              /\ last'.err = "none"
              /\ last'.key \notin DOMAIN ActiveNext(last'.store)
              /\ getReducer(stores'[last'.store], noopReducer', last'.key) = Undefined
              /\ last'.key \notin DOMAIN stores'[last'.store].reducer
              /\ last'.replaced = 1
              /\ \A k \in DOMAIN Active(last'.store) \ {last'.key} :
                    /\ k \in DOMAIN ActiveNext(last'.store)
                    /\ ActiveNext(last'.store)[k] = Active(last'.store)[k]
        /\ (IsRemove(last) /\ last.replaced = 1 /\ IsAdd(last')
              /\ last'.key = last.key /\ last'.store = last.store
              /\ getReducer(LastStore, noopReducer, last.key) = Undefined
              /\ isFunction(last'.arg)) =>
              /\ ActiveNext(last'.store)[last'.key] = last'.arg
              /\ stores'[last'.store].reducer[last'.key] = last'.arg
              /\ last'.ret = last'.arg ]_vars

\* a registered key was removed while another stayed registered
C5_Witness ==
    /\ IsRemove(last) /\ last.replaced = 1 /\ last.key = "a"
    /\ "a" \notin DOMAIN Active(last.store)
    /\ "b" \in DOMAIN Active(last.store)
    /\ "a" \notin DOMAIN LastStore.reducer

----------------------------------------------------------------------------
(* Properties of the saga registry *)

Running(s) == stores[s].runningSagas
IsSagaAdd(c) == c.op = "injectSaga"
IsSagaRemove(c) == c.op = "cancelSaga"

\* C6: add(k, d) on a key that has a handle returns that handle without
\* calling the run capability; two consecutive add(k, d) call the run
\* capability at most once and return the same handle, which get(k) returns.
C6_SagaAddIdempotent ==
    [][ /\ (IsSagaAdd(last') /\ last'.key \in DOMAIN Running(last'.store)) =>
              /\ last'.err = "none"
              /\ last'.ret = Running(last'.store)[last'.key]
              /\ last'.ran = 0
              /\ tasks' = tasks
              /\ stores' = stores
        /\ (IsSagaAdd(last) /\ IsSagaAdd(last') /\ SameCall(last, last')) =>
              /\ last'.ret = last.ret
              /\ last.ran + last'.ran <= 1
              /\ getSaga(stores'[last'.store], last'.key) = last'.ret ]_vars

\* add(k, d) with another definition returned the handle k already had
C6_Witness ==
    /\ IsSagaAdd(last) /\ last.ran = 0
    /\ TaskOf(tasks, last.ret) # 0
    /\ tasks[TaskOf(tasks, last.ret)].saga # last.arg
    /\ Running(last.store)[last.key] = last.ret

\* C7: remove(k) of a key that has a handle calls that handle's cancel once,
\* its only cancel, and deletes the entry, so that get(k) finds nothing; a
\* second remove(k) calls no cancel.
C7_SagaRemoveCancelsOnce ==
    [][ /\ (IsSagaRemove(last') /\ last'.key \in DOMAIN Running(last'.store)) =>
              LET h == Running(last'.store)[last'.key]
                  i == TaskOf(tasks, h)
              IN /\ last'.err = "none"
                 /\ last'.cancelled = <<h>>
                 /\ i # 0
                 /\ tasks' = [tasks EXCEPT ![i].cancels = 1]
                 /\ tasks[i].cancels = 0
                 /\ last'.key \notin DOMAIN stores'[last'.store].runningSagas
                 /\ getSaga(stores'[last'.store], last'.key) = Undefined
        /\ (IsSagaRemove(last) /\ IsSagaRemove(last') /\ SameCall(last, last')) =>
              /\ last'.cancelled = <<>>
              /\ tasks' = tasks ]_vars

\* remove(k) cancelled the handle of k while another key kept its own
C7_Witness ==
    /\ IsSagaRemove(last) /\ Len(last.cancelled) = 1
    /\ tasks[TaskOf(tasks, last.cancelled[1])].cancels = 1
    /\ last.key \notin DOMAIN Running(last.store)
    /\ DOMAIN Running(last.store) # {}

----------------------------------------------------------------------------
(* Properties of argument checking *)

\* C8: add(k, v) with k non-empty and v non-empty and not callable fails with
\* "Reducer must be a function", whether or not k is registered.
C8_NonCallableRejected ==
    (IsAdd(last) /\ last.key # EmptyString /\ ~isEmpty(last.arg)
        /\ TypeOf(last.arg) # "function") =>
        last.err = "ReducerMustBeFunction"

\* some value of the mapping is neither a function nor an object
HasBadValue(mws) == \E k \in DOMAIN mws : TypeOf(mws[k]) \notin {"function", "object"}

\* the slot holds a store that passes the validity check
HoldsValidStore == globalSlot # 0 /\ isStoreValid(stores[globalSlot], noopReducer)

C11_FirstCallCreates ==
    [][ (IsAccessor(last') /\ isGlobal /\ globalSlot = 0
            /\ ~HasBadValue(last'.mws) /\ last'.err # "ConfigureStoreError") =>
            /\ last'.err = "none"
            /\ Len(stores') = Len(stores) + 1
            /\ globalSlot' = Len(stores')
            /\ last'.store = globalSlot' ]_vars

\* C12: every store an accessor call returns, on the first call or a later
\* one, has the four reducer registry methods attached.
C12_ReturnedStoreHasRegistry ==
    (IsAccessor(last) /\ last.err = "none") =>
        ReducerMethods \subseteq LastStore.attached

IsAddMany(c) == c.op = "injectReducers"
EntryKeys(entries) == {entries[i][1] : i \in DOMAIN entries}

\* the mapping passed to the call c has entries, only keys that are non-empty
\* and not in runningReducers, and only functions as values
FreshCallableMapping(c) ==
    /\ c.arg = "mapping" /\ c.entries # <<>>
    /\ \A i \in DOMAIN c.entries :
          /\ c.entries[i][1] # EmptyString
          /\ c.entries[i][1] \notin DOMAIN Active(c.store)
          /\ isFunction(c.entries[i][2])

\* C13: addMany(m), for m with fresh non-empty keys and callable values,
\* returns normally, after it get(k) returns m[k] for every key of m, and the
\* reducers installed in the store are those of the keys registered before,
\* the keys of m and the placeholder.
C13_AddManyAddsAll ==
    [][ (IsAddMany(last') /\ FreshCallableMapping(last')) =>
            /\ last'.err = "none"
            /\ \A i \in DOMAIN last'.entries :
                  getReducer(stores'[last'.store], noopReducer',
                             last'.entries[i][1]) = last'.entries[i][2]
            /\ DOMAIN stores'[last'.store].reducer =
                  DOMAIN Active(last'.store) \cup EntryKeys(last'.entries)
                     \cup {NOOP} ]_vars

----------------------------------------------------------------------------
(* Properties of the registry constructors and of calls that do nothing *)

IsConstruct(c) == c.op \in {"createInjectReducer", "createInjectSaga"}

\* C14: createInjectReducer and createInjectSaga on a store that fails
\* isStoreValid throw "Store is not valid"; createInjectSaga on a valid store
\* with a runSaga that is no function throws "runSaga is not a function"; a
\* constructor that throws attaches no method and leaves the store, its
\* reducers and sagas, and the tasks as they were.
C14_ConstructionFailsFast ==
    [][ /\ (IsConstruct(last')
              /\ ~isStoreValid(stores[last'.store], noopReducer)) =>
              last'.err = "StoreNotValid"
        /\ (last'.op = "createInjectSaga"
              /\ isStoreValid(stores[last'.store], noopReducer)
              /\ ~isFunction(last'.arg)) =>
              last'.err = "RunSagaNotFunction"
        /\ (IsConstruct(last') /\ last'.err # "none") =>
              UNCHANGED <<globalSlot, stores, noopReducer, tasks>> ]_vars

\* createInjectSaga was refused on a store that has a running saga and whose
\* reducers were emptied, and the store has no reducer registry method more
\* than before
C14_Witness ==
    /\ last.op = "createInjectSaga" /\ last.err = "StoreNotValid"
    /\ isFunction(last.arg)
    /\ "p" \in DOMAIN Running(last.store)
    /\ Active(last.store) = EmptyMap

\* the call c, made in the current state, is one of the calls that should do
\* nothing: injectReducer with an empty key or an empty reducer,
\* cancelReducer of a key not in runningReducers, cancelSaga of a key not in
\* runningSagas
IsBenignNoop(c) ==
    \/ IsAdd(c) /\ (isEmpty(c.key) \/ isEmpty(c.arg))
    \/ IsRemove(c) /\ c.key \notin DOMAIN Active(c.store)
    \/ IsSagaRemove(c) /\ c.key \notin DOMAIN Running(c.store)

\* C15: injectReducer with an empty key or reducer, cancelReducer of an
\* unregistered key and cancelSaga of an unregistered key return without an
\* error, leave runningReducers, runningSagas and the tasks as they were and
\* call neither replaceReducer, runSaga nor a task's cancel.
C15_BenignNoops ==
    [][ IsBenignNoop(last') =>
            /\ last'.err = "none"
            /\ UNCHANGED <<stores, noopReducer, tasks>>
            /\ last'.replaced = 0
            /\ last'.ran = 0
            /\ last'.cancelled = <<>> ]_vars

\* the slot holds a store that fails the validity check
HoldsInvalidStore == globalSlot # 0 /\ ~isStoreValid(stores[globalSlot], noopReducer)

C17_NoGlobalScope ==
    [][ env = "none" =>
            /\ getGlobal.err = "NoGlobalObject"
            /\ setGlobal(1).err = "NoGlobalObject"
            /\ (IsAccessor(last') /\ ~HasBadValue(last'.mws)) =>
                  /\ last'.err = "NoGlobalObject"
                  /\ stores' = <<>> /\ stores = <<>>
                  /\ globalSlot' = 0 ]_vars

\* an accessor call with a saga middleware failed for want of a global scope
C17_Witness ==
    /\ env = "none"
    /\ IsAccessor(last) /\ last.err = "NoGlobalObject"
    /\ SAGA_MIDDLEWARE \in DOMAIN last.mws
    /\ stores = <<>> /\ globalSlot = 0

\* C18: after every injectReducer or cancelReducer call that returned and
\* called replaceReducer, the reducers installed in the store are those of
\* the keys of runningReducers together with the placeholder's key.
C18_InstalledMatchesRunning ==
    ((IsAdd(last) \/ IsRemove(last)) /\ last.err = "none" /\ last.replaced > 0) =>
        DOMAIN LastStore.reducer = DOMAIN Active(last.store) \cup {NOOP}

\* C19: a registry constructor that returns leaves runningReducers and
\* runningSagas of its store as they were, so what was registered before is
\* still found, removed and cancelled through the new registry.
C19_ConstructionKeepsEntries ==
    [][ (IsConstruct(last') /\ last'.err = "none") =>
            /\ ActiveNext(last'.store) = Active(last'.store)
            /\ stores'[last'.store].runningSagas = Running(last'.store)
            /\ tasks' = tasks ]_vars

----------------------------------------------------------------------------
(* Accounting of the tasks the saga registry started *)

\* the tasks runSaga started for key k
TasksOf(k) == {i \in DOMAIN tasks : tasks[i].key = k}

\* the number of cancel calls made on the handles of the tasks in S
RECURSIVE CancelCalls(_)
CancelCalls(S) ==
    IF S = {} THEN 0
    ELSE LET i == CHOOSE x \in S : TRUE
         IN tasks[i].cancels + CancelCalls(S \ {i})

\* C20: for every key k, the runSaga calls made for k less the cancel calls
\* made on k's handles number 1 when k is in runningSagas and 0 otherwise; no
\* handle is cancelled twice, and every task not cancelled is the one
\* runningSagas holds under its key.
C20_ProcessAccounting ==
    \A s \in StoreIds :
        /\ \A k \in SagaKeys :
              Cardinality(TasksOf(k)) - CancelCalls(TasksOf(k)) =
                  IF k \in DOMAIN Running(s) THEN 1 ELSE 0
        /\ \A i \in DOMAIN tasks :
              /\ tasks[i].cancels <= 1
              /\ tasks[i].cancels = 0 =>
                    /\ tasks[i].key \in DOMAIN Running(s)
                    /\ Running(s)[tasks[i].key] = Handle(i)

\* a key whose saga was started, cancelled and started again has one task
\* running, the second, and runningSagas holds its handle
C20_Witness ==
    /\ Len(tasks) = 2
    /\ tasks[1].key = "p" /\ tasks[1].cancels = 1
    /\ tasks[2].key = "p" /\ tasks[2].cancels = 0
    /\ Running(1) = [k \in {"p"} |-> Handle(2)]
    /\ IsSagaAdd(last) /\ last.ran = 1

----------------------------------------------------------------------------
(* injectReducers that fails part of the way *)

\* C21: when injectReducers(m) throws "Reducer must be a function", m has an
\* entry with a non-empty value that is no function such that every entry
\* before it with a non-empty unregistered key and a function as value is
\* now in runningReducers and installed in the store, and that entry and
\* every entry after it are in runningReducers and in the store's reducers
\* as they were before the call.
C21_AddManyNotAtomic ==
    [][ (IsAddMany(last') /\ last'.err = "ReducerMustBeFunction") =>
          \E j \in DOMAIN last'.entries :
            LET e == last'.entries
                s == last'.store
            IN /\ ~isEmpty(e[j][2]) /\ ~isFunction(e[j][2])
               /\ \A i \in 1..(j - 1) :
                     (e[i][1] # EmptyString /\ isFunction(e[i][2])
                        /\ e[i][1] \notin DOMAIN Active(s)) =>
                        /\ e[i][1] \in DOMAIN ActiveNext(s)
                        /\ ActiveNext(s)[e[i][1]] = e[i][2]
                        /\ e[i][1] \in DOMAIN stores'[s].reducer
                        /\ stores'[s].reducer[e[i][1]] = e[i][2]
               /\ \A i \in j..Len(e) :
                     /\ Get(ActiveNext(s), e[i][1]) = Get(Active(s), e[i][1])
                     /\ Get(stores'[s].reducer, e[i][1]) = Get(stores[s].reducer, e[i][1]) ]_vars

\* injectReducers({a: h2, b: 42}) threw at b after it registered a
C21_Witness ==
    /\ IsAddMany(last) /\ last.err = "ReducerMustBeFunction"
    /\ last.entries = <<Entry("a", "h2"), Entry("b", "42")>>
    /\ last.replaced = 1
    /\ "a" \in DOMAIN Active(last.store) /\ Active(last.store)["a"] = "h2"
    /\ "a" \in DOMAIN LastStore.reducer
    /\ "b" \notin DOMAIN Active(last.store)

====
